---- MODULE Spec2Model ----
(***************************************************************************)
(* A model of the reference-extraction orchestrator of src/clangd.py:      *)
(* main() spawns a language server, start_communication() performs the     *)
(* handshake, opens every source file, waits on the parse barrier, walks   *)
(* the symbol tree of FILE_PATH issuing one references query per symbol    *)
(* and prints one report line per reference; main()'s finally clause sends *)
(* shutdown and exit.  The transport's dispatch thread runs the            *)
(* publishDiagnostics callback concurrently with the main thread, and the  *)
(* ReadPipe thread forwards the server's stderr, line by line, to the      *)
(* program's stderr.                                                       *)
(*                                                                         *)
(* Strings of the program are TLA+ strings, so that URI construction,      *)
(* scheme stripping, line splitting and report formatting are computed     *)
(* the way the code computes them.                                         *)
(***************************************************************************)
EXTENDS Integers, Sequences, FiniteSets, TLC

VARIABLES
    pc,           \* position of the main thread
    fs,           \* the files root_dir.glob("**/*.php") yields (absolute paths)
    toOpen,       \* files the loop of open_all_source_files has not reached yet
    opened_files, \* open_all_source_files' local mapping path -> TextDocumentItem
    documents,    \* start_communication's `documents` (the returned mapping)
    files,        \* start_communication's `files`: the barrier's target URI set
    done_files,   \* the module global _DONE_FILES
    poll,         \* iterations of the barrier loop completed so far
    barrier,      \* how the barrier loop ended: "none", "Completed", "TimedOut"
    symbols,      \* start_communication's `symbols` (the documentSymbol result)
    todo,         \* symbols still to be visited, in visiting order (the call stack
                  \* of get_reference flattened: head is the next symbol)
    reply,        \* what the last references call returned to get_reference
    sent,         \* every protocol message written to the server, in order
    stdout,       \* report lines printed, in order
    stderr,       \* diagnostic lines printed (a set: the threads' lines interleave
                  \* in scheduling order, and nothing below depends on it)
    exc,          \* the exception propagating out of start_communication
    pipe,         \* lines in the buffer of the server's stderr pipe, oldest first
    server_pending, \* the line (bytes) the server is writing to its stderr, <<>>
                  \* when it is not writing; the server does nothing else meanwhile
    server_lines, \* lines the server has set out to write to stderr so far
    pipe_closed,  \* the server has exited: the write end of the pipe is closed
    read_pipe     \* the ReadPipe thread: "running", "done", "UnicodeDecodeError"

\* the server's stderr pipe and the thread draining it
serverSide == <<pipe, server_pending, server_lines, pipe_closed, read_pipe>>

vars == <<pc, fs, toOpen, opened_files, documents, files, done_files, poll,
          barrier, symbols, todo, reply, sent, stdout, stderr, exc,
          pipe, server_pending, server_lines, pipe_closed, read_pipe>>

----------------------------------------------------------------------------
(* Program constants.  Paths are shortened; their roles are the code's.    *)

FILE_PARSE_TIMEOUT_SEC == 30
FILE_PATH == "/a.php"
DocVersion == 1
FlatLineOffset == 3
Scheme == "file://"

(* The workspace: the files root_dir.glob("**/*.php") may yield are the    *)
(* first MaxFiles of these paths.                                          *)
MaxFiles == 3
WorkspacePaths == <<"/a.php", "/b.php", "/c.php", "/d.php", "/e.php">>
RootGlob == {WorkspacePaths[i] : i \in 1..MaxFiles}

(* File contents on disk: two lines with a trailing newline, three lines   *)
(* with an empty one in the middle, an empty file, one-line files.         *)
FileText(path) ==
    CASE path = "/a.php" -> "ab\ncd\n"
      [] path = "/b.php" -> "e\n\nfg"
      [] path = "/c.php" -> ""
      [] OTHER -> "h\n"

(* A URI of a file that is never opened (outside ROOT_DIR).                *)
OutsideUri == "file:///z.php"

----------------------------------------------------------------------------
(* lsp_structs                                                             *)

Position(line, character) == [line |-> line, character |-> character]

Range(start, end) == [start |-> start, end |-> end]

Location(uri, range) == [uri |-> uri, range |-> range]

TextDocumentItemV2(uri, languageId, version, text) ==
    [uri |-> uri, languageId |-> languageId, version |-> version + 1, text |-> text]

TextDocumentItem(uri, languageId, version, text) ==
    [uri |-> uri, languageId |-> languageId, version |-> version, text |-> text]

SymbolInformation(name, location) ==
    [type |-> "SymbolInformation", name |-> name, location |-> location]

DocumnetSymbol(name, range, selectionRange, children) ==
    [type |-> "DocumnetSymbol", name |-> name, range |-> range,
     selectionRange |-> selectionRange, children |-> children]

----------------------------------------------------------------------------
(* String helpers: what Python's slicing and str.splitlines compute.       *)

\* s[n:]
DropPrefix(s, n) == IF Len(s) <= n THEN "" ELSE SubSeq(s, n + 1, Len(s))

\* index of the first "\n" of s, 0 when there is none
RECURSIVE FirstNewline(_, _)
FirstNewline(s, i) ==
    IF i > Len(s) THEN 0
    ELSE IF SubSeq(s, i, i) = "\n" THEN i
    ELSE FirstNewline(s, i + 1)

\* str.splitlines(): a trailing newline opens no further line, "" has no line
\* (the file texts here hold no line boundary other than "\n")
RECURSIVE splitlines(_)
splitlines(s) ==
    IF s = "" THEN <<>>
    ELSE LET i == FirstNewline(s, 1) IN
         IF i = 0 THEN <<s>>
         ELSE <<SubSeq(s, 1, i - 1)>> \o splitlines(DropPrefix(s, i))

\* whether sub occurs in s
Contains(s, sub) ==
    \E i \in 1..(Len(s) - Len(sub) + 1) : SubSeq(s, i, i + Len(sub) - 1) = sub

----------------------------------------------------------------------------
(* What the server may answer.                                             *)

Uri(path) == Scheme \o path

At(line, character) ==
    Range(Position(line, character), Position(line, character + 1))

\* documentSymbol results: no symbol, a hierarchical forest (two roots, a
\* grandchild, selectionRange distinct from range), a flat list.
HierarchicalSymbols ==
    << DocumnetSymbol("A", At(0, 0), At(0, 6),
          << DocumnetSymbol("B", At(1, 0), At(1, 4),
                << DocumnetSymbol("D", At(2, 0), At(2, 8), <<>>) >>),
             DocumnetSymbol("C", At(3, 0), At(3, 4), <<>>) >>),
       DocumnetSymbol("E", At(5, 0), At(5, 6), <<>>) >>

FlatSymbols ==
    << SymbolInformation("F", Location(Uri(FILE_PATH), At(0, 2))),
       SymbolInformation("G", Location(Uri(FILE_PATH), At(4, 0))) >>

SymbolResults == { <<>>, HierarchicalSymbols, FlatSymbols }

\* references results: a list of Location, or one Location object.
LocationList(items) == [type |-> "list", items |-> items]

SingleLocation(location) == [type |-> "Location", items |-> <<location>>]

ReferenceResults ==
    { LocationList(<<>>),
      LocationList(<< Location(Uri("/b.php"), At(2, 0)) >>),
      LocationList(<< Location(Uri("/a.php"), At(0, 0)),
                      Location(Uri("/b.php"), At(1, 0)),
                      Location(Uri("/a.php"), At(0, 0)) >>),
      SingleLocation(Location(Uri("/a.php"), At(1, 1))),
      LocationList(<< Location(Uri("/a.php"), At(1, 0)),
                      Location(OutsideUri, At(0, 0)),
                      Location(Uri("/b.php"), At(0, 0)) >>),
      LocationList(<< Location(Uri("/c.php"), At(0, 0)) >>),
      LocationList(<< Location(Uri("/a.php"), At(2, 0)) >>) }

\* The outcomes of the LspClient calls (pylspclient/lsp_client.py): requests
\* return a result or raise ResponseError; notifications return.
LspCallOutcomes(method) ==
    CASE method \in {"initialize", "initialized", "textDocument/documentSymbol",
                     "textDocument/references"} -> {"result", "ResponseError"}
      [] OTHER -> {"result"}

Message(method, params) == [method |-> method, params |-> params]

NoReply == [kind |-> "none", type |-> "none", items |-> <<>>]

----------------------------------------------------------------------------
(* print_reference                                                         *)

Quoted(s) == "\"" \o s \o "\""

\* the line printed for a symbol without references
OriginLine(uri, line, character, name) ==
    Quoted(uri) \o ", " \o ToString(line) \o ", " \o ToString(character)
        \o ", " \o Quoted(name)

\* the line printed for one reference (the code delimits line_str with
\* backquotes, which a TLA+ string cannot hold: they are written as ')
ReferenceLine(uri, line, character, name, location, line_str) ==
    OriginLine(uri, line, character, name) \o ", " \o Quoted(location.uri)
        \o ", " \o ToString(location.range.start.line)
        \o ", " \o ToString(location.range.start.character)
        \o ", '" \o line_str \o "'"

\* documents[location.uri[len("file://"):]]
DocumentKey(location) == DropPrefix(location.uri, Len(Scheme))

\* document.text.splitlines()[loc_line] resolved with the wrong index: always
\* the first line
LineStrFirstLine(text, loc_line) == splitlines(text)[1]

\* document.text.splitlines()[loc_line]
LineStr(text, loc_line) == splitlines(text)[loc_line + 1]

\* the body of `for location in _locations`, from location i on: the lines
\* printed and the exception that ends the loop, if any (KeyError of the
\* documents lookup, IndexError of the line lookup)
RECURSIVE PrintLocations(_, _, _, _, _, _, _)
PrintLocations(uri, line, character, name, locs, docs, i) ==
    IF i > Len(locs) THEN [out |-> <<>>, raised |-> "none"]
    ELSE LET location == locs[i]
             key == DocumentKey(location)
         IN IF key \notin DOMAIN docs THEN [out |-> <<>>, raised |-> "KeyError"]
            ELSE LET loc_line == location.range.start.line
                 IN IF loc_line >= Len(splitlines(docs[key].text))
                    THEN [out |-> <<>>, raised |-> "IndexError"]
                    ELSE LET rest == PrintLocations(uri, line, character, name,
                                                    locs, docs, i + 1)
                         IN [out |-> <<ReferenceLine(uri, line, character, name,
                                          location,
                                          LineStr(docs[key].text, loc_line))>>
                                      \o rest.out,
                             raised |-> rest.raised]

\* print_reference without its `if not _locations` branch
print_referenceNoEmptyCase(uri, line, character, name, locations, docs) ==
    PrintLocations(uri, line, character, name, locations.items, docs, 1)

print_reference(uri, line, character, name, locations, docs) ==
    LET _locations == locations.items
        first == IF _locations = <<>>
                 THEN <<OriginLine(uri, line, character, name)>>
                 ELSE <<>>
        rest == PrintLocations(uri, line, character, name, _locations, docs, 1)
    IN [out |-> first \o rest.out, raised |-> rest.raised]

----------------------------------------------------------------------------
(* get_reference                                                           *)

\* the anchor taken at the start of the declaration range
AnchorRangeStart(symbol) ==
    IF symbol.type = "DocumnetSymbol"
    THEN Position(symbol.range.start.line, symbol.range.start.character)
    ELSE Position(symbol.location.range.start.line + FlatLineOffset,
                  symbol.location.range.start.character)

\* the anchor of a flat symbol taken at its reported position, uncompensated
AnchorNoOffset(symbol) ==
    IF symbol.type = "DocumnetSymbol"
    THEN Position(symbol.selectionRange.start.line,
                  symbol.selectionRange.start.character)
    ELSE Position(symbol.location.range.start.line,
                  symbol.location.range.start.character)

\* the position the references query of a symbol is anchored at
Anchor(symbol) ==
    IF symbol.type = "DocumnetSymbol"
    THEN Position(symbol.selectionRange.start.line,
                  symbol.selectionRange.start.character)
    ELSE Position(symbol.location.range.start.line + FlatLineOffset,
                  symbol.location.range.start.character)

ReferencesRequest(symbol, uri) ==
    Message("textDocument/references",
            [textDocument |-> [uri |-> uri], position |-> Anchor(symbol),
             context |-> [includeDeclaration |-> TRUE]])

\* the symbols get_reference recurses into after printing
Children(symbol) ==
    IF symbol.type = "DocumnetSymbol" THEN symbol.children ELSE <<>>

\* what is left to visit once `symbol`, the head of the pending symbols, is
\* done: its children in declared order, then the symbols that were pending
AfterVisitBreadthFirst(symbol, pending) == pending \o Children(symbol)

AfterVisit(symbol, pending) == Children(symbol) \o pending

----------------------------------------------------------------------------
(* The state after main() has spawned the server, started the stderr and   *)
(* dispatch threads and built the client (clangd.py 319-336).              *)

Init ==
    /\ pc = "start"
    /\ fs \in SUBSET RootGlob
    /\ toOpen = fs
    /\ opened_files = <<>>
    /\ documents = <<>>
    /\ files = {}
    /\ done_files = {}
    /\ poll = 0
    /\ barrier = "none"
    /\ symbols = <<>>
    /\ todo = <<>>
    /\ reply = NoReply
    /\ sent = <<>>
    /\ stdout = <<>>
    /\ stderr = {}
    /\ exc = "none"
    /\ pipe = <<>>
    /\ server_pending = <<>>
    /\ server_lines = 0
    /\ pipe_closed = FALSE
    /\ read_pipe = "running"

\* an exception leaves start_communication: control reaches main's finally
Raise(e) ==
    /\ exc' = e
    /\ pc' = "finally"

----------------------------------------------------------------------------
(* publishDiagnostics, run by the dispatch thread for each notification    *)

NotifiedUris == {Uri(path) : path \in RootGlob} \cup {OutsideUri}

\* a callback that keeps only the last notified URI
publishDiagnosticsOverwrite(uri) ==
    /\ pc # "exited"
    /\ done_files' = {uri}
    /\ stderr' = stderr \cup {"Parse end: " \o uri}
    /\ UNCHANGED <<pc, fs, toOpen, opened_files, documents, files, poll, barrier,
                   symbols, todo, reply, sent, stdout, exc>>
    /\ UNCHANGED serverSide

publishDiagnostics(uri) ==
    /\ pc # "exited"
    /\ done_files' = done_files \cup {uri}
    /\ stderr' = stderr \cup {"Parse end: " \o uri}
    /\ UNCHANGED <<pc, fs, toOpen, opened_files, documents, files, poll, barrier,
                   symbols, todo, reply, sent, stdout, exc>>
    /\ UNCHANGED serverSide

----------------------------------------------------------------------------
(* start_communication: the handshake                                      *)

\* initialize and initialized written back to back, the answer not awaited
SendInitializeNoAwait ==
    /\ pc = "start"
    /\ stderr' = stderr \cup {"before initialized"}
    /\ sent' = sent \o << Message("initialize", "capabilities"),
                          Message("initialized", "none") >>
    /\ pc' = "initialize_wait"
    /\ UNCHANGED <<fs, toOpen, opened_files, documents, files, done_files, poll,
                   barrier, symbols, todo, reply, stdout, exc>>
    /\ UNCHANGED serverSide

SendInitialize ==
    /\ pc = "start"
    /\ stderr' = stderr \cup {"before initialized"}
    /\ sent' = Append(sent, Message("initialize", "capabilities"))
    /\ pc' = "initialize_wait"
    /\ UNCHANGED <<fs, toOpen, opened_files, documents, files, done_files, poll,
                   barrier, symbols, todo, reply, stdout, exc>>
    /\ UNCHANGED serverSide

\* a handshake that notes the failure of initialize and goes on
RecvInitializeIgnoreError ==
    /\ pc = "initialize_wait"
    /\ server_pending = <<>>
    /\ \E outcome \in LspCallOutcomes("initialize") :
         IF outcome = "result"
         THEN /\ stderr' = stderr \cup {"<initialize result>", "initializing..."}
              /\ exc' = exc
         ELSE /\ exc' = outcome
              /\ stderr' = stderr
    /\ pc' = "initialized"
    /\ UNCHANGED <<fs, toOpen, opened_files, documents, files, done_files, poll,
                   barrier, symbols, todo, reply, sent, stdout>>
    /\ UNCHANGED serverSide

RecvInitialize ==
    /\ pc = "initialize_wait"
    /\ server_pending = <<>>    \* a server blocked on stderr answers nothing
    /\ \E outcome \in LspCallOutcomes("initialize") :
         IF outcome = "result"
         THEN /\ stderr' = stderr \cup {"<initialize result>", "initializing..."}
              /\ pc' = "initialized"
              /\ exc' = exc
         ELSE /\ Raise(outcome)
              /\ stderr' = stderr
    /\ UNCHANGED <<fs, toOpen, opened_files, documents, files, done_files, poll,
                   barrier, symbols, todo, reply, sent, stdout>>
    /\ UNCHANGED serverSide

Initialized ==
    /\ pc = "initialized"
    /\ sent' = Append(sent, Message("initialized", "none"))
    /\ \E outcome \in LspCallOutcomes("initialized") :
         IF outcome = "result"
         THEN /\ stderr' = stderr \cup {"None", "after initialized"}
              /\ pc' = "ingest"
              /\ exc' = exc
         ELSE /\ Raise(outcome)
              /\ stderr' = stderr
    /\ UNCHANGED <<fs, toOpen, opened_files, documents, files, done_files, poll,
                   barrier, symbols, todo, reply, stdout>>
    /\ UNCHANGED serverSide

----------------------------------------------------------------------------
(* open_all_source_files                                                   *)

\* a loop that notes an unreadable file, skips it and goes on
OpenFileSkipUnreadable(path) ==
    /\ pc = "ingest"
    /\ path \in toOpen
    /\ \/ /\ LET documentItem == TextDocumentItem(Uri(path), "php", DocVersion,
                                                   FileText(path))
             IN /\ sent' = Append(sent, Message("textDocument/didOpen", documentItem))
                /\ opened_files' = [p \in DOMAIN opened_files \cup {path} |->
                                      IF p = path THEN documentItem
                                      ELSE opened_files[p]]
          /\ UNCHANGED exc
       \/ /\ exc' = "OSError"
          /\ UNCHANGED <<sent, opened_files>>
    /\ toOpen' = toOpen \ {path}
    /\ UNCHANGED <<pc, fs, documents, files, done_files, poll, barrier, symbols, todo,
                   reply, stdout, stderr>>
    /\ UNCHANGED serverSide

\* one iteration of the loop: read the file, build the item, didOpen, retain
OpenFile(path) ==
    /\ pc = "ingest"
    /\ path \in toOpen
    /\ \/ /\ LET documentItem == TextDocumentItem(Uri(path), "php", DocVersion,
                                                   FileText(path))
             IN /\ sent' = Append(sent, Message("textDocument/didOpen", documentItem))
                /\ opened_files' = [p \in DOMAIN opened_files \cup {path} |->
                                      IF p = path THEN documentItem
                                      ELSE opened_files[p]]
          /\ toOpen' = toOpen \ {path}
          /\ UNCHANGED <<pc, exc>>
       \/ \* open(file_path, "r").read() fails
          /\ Raise("OSError")
          /\ UNCHANGED <<sent, opened_files, toOpen>>
    /\ UNCHANGED <<fs, documents, files, done_files, poll, barrier, symbols, todo, reply,
                   stdout, stderr>>
    /\ UNCHANGED serverSide

\* the URIs of the documents of a mapping (clangd.py 281)
DocumentUris(docs) == {docs[p].uri : p \in DOMAIN docs}

\* a start of the barrier that empties the parsed set along with computing
\* the target
ReturnOpenedFilesResetParsed ==
    /\ pc = "ingest"
    /\ toOpen = {}
    /\ documents' = opened_files
    /\ files' = {opened_files[p].uri : p \in DOMAIN opened_files}
    /\ done_files' = {}
    /\ pc' = "barrier"
    /\ UNCHANGED <<fs, toOpen, opened_files, poll, barrier, symbols, todo, reply,
                   sent, stdout, stderr, exc>>
    /\ UNCHANGED serverSide

\* the loop is exhausted: return opened_files; start_communication binds
\* `documents` and computes `files`
ReturnOpenedFiles ==
    /\ pc = "ingest"
    /\ toOpen = {}
    /\ documents' = opened_files
    /\ files' = DocumentUris(opened_files)
    /\ pc' = "barrier"
    /\ UNCHANGED <<fs, toOpen, opened_files, done_files, poll, barrier, symbols, todo, reply,
                   sent, stdout, stderr, exc>>
    /\ UNCHANGED serverSide

----------------------------------------------------------------------------
(* The parse barrier (clangd.py 282-288)                                   *)

\* the test of one poll
AllParsedSubset(done, target) == done \subseteq target

AllParsed(done, target) == done = target

\* one iteration: test, then break or sleep(1).  The loop variable is dead
\* once the loop is left and is reset.
\* a poll that empties the parsed set once it has matched the target
PollForgetting ==
    /\ pc = "barrier"
    /\ poll < FILE_PARSE_TIMEOUT_SEC
    /\ IF AllParsed(done_files, files)
       THEN /\ barrier' = "Completed"
            /\ pc' = "lookup"
            /\ poll' = 0
            /\ done_files' = {}
       ELSE /\ poll' = poll + 1
            /\ UNCHANGED <<barrier, pc, done_files>>
    /\ UNCHANGED <<fs, toOpen, opened_files, documents, files, symbols, todo,
                   reply, sent, stdout, stderr, exc>>
    /\ UNCHANGED serverSide

\* a loop that polls until the sets match, counting nothing
PollUnbounded ==
    /\ pc = "barrier"
    /\ IF AllParsed(done_files, files)
       THEN /\ barrier' = "Completed"
            /\ pc' = "lookup"
       ELSE UNCHANGED <<barrier, pc>>
    /\ UNCHANGED <<fs, toOpen, opened_files, documents, files, done_files, poll,
                   symbols, todo, reply, sent, stdout, stderr, exc>>
    /\ UNCHANGED serverSide

Poll ==
    /\ pc = "barrier"
    /\ poll < FILE_PARSE_TIMEOUT_SEC
    /\ IF AllParsed(done_files, files)
       THEN /\ barrier' = "Completed"
            /\ pc' = "lookup"
            /\ poll' = 0
       ELSE /\ poll' = poll + 1
            /\ UNCHANGED <<barrier, pc>>
    /\ UNCHANGED <<fs, toOpen, opened_files, documents, files, done_files, symbols, todo,
                   reply, sent, stdout, stderr, exc>>
    /\ UNCHANGED serverSide

\* the for-else with its return missing: control falls through to the walk
BarrierTimeoutFallThrough ==
    /\ pc = "barrier"
    /\ poll = FILE_PARSE_TIMEOUT_SEC
    /\ stderr' = stderr \cup {"file parse timeout"}
    /\ barrier' = "TimedOut"
    /\ pc' = "lookup"
    /\ poll' = 0
    /\ UNCHANGED <<fs, toOpen, opened_files, documents, files, done_files, symbols, todo,
                   reply, sent, stdout, exc>>
    /\ UNCHANGED serverSide

\* the for-else: every iteration slept; print the notice and return
BarrierTimeout ==
    /\ pc = "barrier"
    /\ poll = FILE_PARSE_TIMEOUT_SEC
    /\ stderr' = stderr \cup {"file parse timeout"}
    /\ barrier' = "TimedOut"
    /\ pc' = "finally"
    /\ poll' = 0
    /\ UNCHANGED <<fs, toOpen, opened_files, documents, files, done_files, symbols, todo,
                   reply, sent, stdout, exc>>
    /\ UNCHANGED serverSide

----------------------------------------------------------------------------
(* start_communication: the walk (clangd.py 290-301)                       *)

\* a lookup that returns quietly when the target file was not ingested
SendDocumentSymbolSkipMissing ==
    /\ pc = "lookup"
    /\ IF FILE_PATH \in DOMAIN documents
       THEN /\ sent' = Append(sent, Message("textDocument/documentSymbol",
                                            documents[FILE_PATH]))
            /\ pc' = "documentSymbol_wait"
       ELSE /\ pc' = "finally"
            /\ sent' = sent
    /\ UNCHANGED <<fs, toOpen, opened_files, documents, files, done_files, poll,
                   barrier, symbols, todo, reply, stdout, stderr, exc>>
    /\ UNCHANGED serverSide

\* documentItem = documents[FILE_PATH]; the documentSymbol request is written
SendDocumentSymbol ==
    /\ pc = "lookup"
    /\ IF FILE_PATH \in DOMAIN documents
       THEN /\ sent' = Append(sent, Message("textDocument/documentSymbol",
                                            documents[FILE_PATH]))
            /\ pc' = "documentSymbol_wait"
            /\ exc' = exc
       ELSE /\ Raise("KeyError")
            /\ sent' = sent
    /\ UNCHANGED <<fs, toOpen, opened_files, documents, files, done_files, poll,
                   barrier, symbols, todo, reply, stdout, stderr>>
    /\ UNCHANGED serverSide

\* the except clause of start_communication
\* an except clause that swallows the error without printing anything
CatchResponseErrorSilently ==
    /\ stderr' = stderr
    /\ pc' = "finally"

CatchResponseError ==
    /\ stderr' = stderr \cup {"<ResponseError>", "Failed to document symbols"}
    /\ pc' = "finally"

RecvDocumentSymbol ==
    /\ pc = "documentSymbol_wait"
    /\ server_pending = <<>>
    /\ \E outcome \in LspCallOutcomes("textDocument/documentSymbol") :
         IF outcome = "result"
         THEN \E result \in SymbolResults :
                /\ symbols' = result
                /\ todo' = result
                /\ stderr' = stderr \cup
                     {"Get references for all symbols in file: "
                        \o documents[FILE_PATH].uri \o "."}
                /\ pc' = "walk"
         ELSE /\ CatchResponseError
              /\ UNCHANGED <<symbols, todo>>
    /\ UNCHANGED <<fs, toOpen, opened_files, documents, files, done_files, poll,
                   barrier, reply, sent, stdout, exc>>
    /\ UNCHANGED serverSide

\* a walker that writes the request of the next pending symbol along with
\* that of the symbol it enters, before any answer
SendReferencesAhead ==
    /\ pc = "walk"
    /\ todo # <<>>
    /\ sent' = sent \o
         << ReferencesRequest(Head(todo), documents[FILE_PATH].uri) >> \o
         (IF Len(todo) > 1
          THEN << ReferencesRequest(todo[2], documents[FILE_PATH].uri) >>
          ELSE << >>)
    /\ pc' = "references_wait"
    /\ UNCHANGED <<fs, toOpen, opened_files, documents, files, done_files, poll,
                   barrier, symbols, todo, reply, stdout, stderr, exc>>
    /\ UNCHANGED serverSide

\* get_reference is entered for the next symbol: its references request is
\* written
SendReferences ==
    /\ pc = "walk"
    /\ todo # <<>>
    /\ sent' = Append(sent, ReferencesRequest(Head(todo), documents[FILE_PATH].uri))
    /\ pc' = "references_wait"
    /\ UNCHANGED <<fs, toOpen, opened_files, documents, files, done_files, poll,
                   barrier, symbols, todo, reply, stdout, stderr, exc>>
    /\ UNCHANGED serverSide

\* a walker that notes the failure of one symbol's query and goes on to the
\* next symbol
RecvReferencesSkipFailed ==
    /\ pc = "references_wait"
    /\ server_pending = <<>>
    /\ \E outcome \in LspCallOutcomes("textDocument/references") :
         IF outcome = "result"
         THEN \E locations \in ReferenceResults :
                LET symbol == Head(todo)
                    anchor == Anchor(symbol)
                    printed == print_reference(documents[FILE_PATH].uri, anchor.line,
                                               anchor.character, symbol.name,
                                               locations, documents)
                IN /\ reply' = [kind |-> "result", type |-> locations.type,
                                items |-> locations.items]
                   /\ stdout' = stdout \o printed.out
                   /\ IF printed.raised = "none"
                      THEN /\ todo' = AfterVisit(symbol, Tail(todo))
                           /\ pc' = "walk"
                           /\ exc' = exc
                      ELSE /\ Raise(printed.raised)
                           /\ todo' = todo
                   /\ stderr' = stderr
         ELSE /\ stderr' = stderr \cup {"<ResponseError>", "Failed to document symbols"}
              /\ reply' = [kind |-> "ResponseError", type |-> "none", items |-> <<>>]
              /\ todo' = AfterVisit(Head(todo), Tail(todo))
              /\ pc' = "walk"
              /\ UNCHANGED <<stdout, exc>>
    /\ UNCHANGED <<fs, toOpen, opened_files, documents, files, done_files, poll,
                   barrier, symbols, sent>>
    /\ UNCHANGED serverSide

\* the references call returns or raises; on a result print_reference runs,
\* then get_reference goes on to the symbol's children
RecvReferences ==
    /\ pc = "references_wait"
    /\ server_pending = <<>>
    /\ \E outcome \in LspCallOutcomes("textDocument/references") :
         IF outcome = "result"
         THEN \E locations \in ReferenceResults :
                LET symbol == Head(todo)
                    anchor == Anchor(symbol)
                    printed == print_reference(documents[FILE_PATH].uri, anchor.line,
                                               anchor.character, symbol.name,
                                               locations, documents)
                IN /\ reply' = [kind |-> "result", type |-> locations.type,
                                items |-> locations.items]
                   /\ stdout' = stdout \o printed.out
                   /\ IF printed.raised = "none"
                      THEN /\ todo' = AfterVisit(symbol, Tail(todo))
                           /\ pc' = "walk"
                           /\ exc' = exc
                      ELSE /\ Raise(printed.raised)
                           /\ todo' = todo
                   /\ stderr' = stderr
         ELSE /\ CatchResponseError
              /\ reply' = [kind |-> "ResponseError", type |-> "none", items |-> <<>>]
              /\ UNCHANGED <<todo, stdout, exc>>
    /\ UNCHANGED <<fs, toOpen, opened_files, documents, files, done_files, poll,
                   barrier, symbols, sent>>
    /\ UNCHANGED serverSide

\* `for symbol in symbols` is exhausted: start_communication returns
WalkDone ==
    /\ pc = "walk"
    /\ todo = <<>>
    /\ pc' = "finally"
    /\ UNCHANGED <<fs, toOpen, opened_files, documents, files, done_files, poll,
                   barrier, symbols, todo, reply, sent, stdout, stderr, exc>>
    /\ UNCHANGED serverSide

----------------------------------------------------------------------------
(* main: the finally clause (clangd.py 337-341)                            *)

\* shutdown written only when start_communication returned normally
ShutdownUnlessRaised ==
    /\ pc = "finally"
    /\ IF exc = "none"
       THEN /\ sent' = Append(sent, Message("shutdown", "none"))
            /\ pc' = "finally_exit"
       ELSE /\ sent' = sent
            /\ pc' = "exited"
    /\ UNCHANGED <<fs, toOpen, opened_files, documents, files, done_files, poll,
                   barrier, symbols, todo, reply, stdout, stderr, exc>>
    /\ UNCHANGED serverSide

Shutdown ==
    /\ pc = "finally"
    /\ sent' = Append(sent, Message("shutdown", "none"))
    /\ pc' = "finally_exit"
    /\ UNCHANGED <<fs, toOpen, opened_files, documents, files, done_files, poll,
                   barrier, symbols, todo, reply, stdout, stderr, exc>>
    /\ UNCHANGED serverSide

\* exit written right behind shutdown, whether or not shutdown was answered
ExitWithoutAwaiting ==
    /\ pc = "finally_exit"
    /\ sent' = Append(sent, Message("exit", "none"))
    /\ pc' = "exited"
    /\ UNCHANGED <<fs, toOpen, opened_files, documents, files, done_files, poll,
                   barrier, symbols, todo, reply, stdout, stderr, exc>>
    /\ UNCHANGED serverSide

\* exit is written; main returns, or the pending exception propagates
Exit ==
    /\ pc = "finally_exit"
    /\ server_pending = <<>>
    /\ sent' = Append(sent, Message("exit", "none"))
    /\ pc' = "exited"
    /\ UNCHANGED <<fs, toOpen, opened_files, documents, files, done_files, poll,
                   barrier, symbols, todo, reply, stdout, stderr, exc>>
    /\ UNCHANGED serverSide

----------------------------------------------------------------------------

Next ==
    \/ \E uri \in NotifiedUris : publishDiagnostics(uri)
    \/ SendInitialize
    \/ RecvInitialize
    \/ Initialized
    \/ \E path \in RootGlob : OpenFile(path)
    \/ ReturnOpenedFiles
    \/ Poll
    \/ BarrierTimeout
    \/ SendDocumentSymbol
    \/ RecvDocumentSymbol
    \/ SendReferences
    \/ RecvReferences
    \/ WalkDone
    \/ Shutdown
    \/ Exit

Spec == Init /\ [][Next]_vars

----------------------------------------------------------------------------
(* The server's stderr and the ReadPipe thread (clangd.py 29-38, 319-327). *)
(* The server is spawned with stderr=PIPE: a write to a full pipe blocks   *)
(* the server until the reader has taken a line out.                       *)

PipeCapacity == 1

\* enough lines for one to kill the reader, the next ones to fill the pipe
\* and one more to find it full
MaxServerLines == PipeCapacity + 2

\* lines the server may write, as bytes: "l\n", and a line holding 0xFF
ServerStderrLines == {<<108, 10>>, <<255, 10>>}

\* bytes.decode("utf-8"), for lines of ASCII bytes and of bytes that occur
\* in no UTF-8 text (0xC0, 0xC1, 0xF5..0xFF)
Chr(byte) ==
    CASE byte = 10 -> "\n"
      [] byte = 108 -> "l"

RECURSIVE DecodeAscii(_)
DecodeAscii(bytes) ==
    IF bytes = <<>> THEN "" ELSE Chr(Head(bytes)) \o DecodeAscii(Tail(bytes))

decode(bytes) ==
    IF \A i \in 1..Len(bytes) : bytes[i] < 128
    THEN [raised |-> "none", text |-> DecodeAscii(bytes)]
    ELSE [raised |-> "UnicodeDecodeError", text |-> ""]

\* what the interpreter prints when run() ends by an exception
ThreadTraceback(e) == "Exception in thread: " \o e

\* the server sets out to write a line to its stderr
ServerDecidesToLog(line) ==
    /\ ~pipe_closed
    /\ server_pending = <<>>
    /\ server_lines < MaxServerLines
    /\ server_pending' = line
    /\ server_lines' = server_lines + 1
    /\ UNCHANGED <<pc, fs, toOpen, opened_files, documents, files, done_files, poll,
                   barrier, symbols, todo, reply, sent, stdout, stderr, exc,
                   pipe, pipe_closed, read_pipe>>

\* the write completes once the pipe has room for the line
ServerWriteStderr ==
    /\ server_pending # <<>>
    /\ Len(pipe) < PipeCapacity
    /\ pipe' = Append(pipe, server_pending)
    /\ server_pending' = <<>>
    /\ UNCHANGED <<pc, fs, toOpen, opened_files, documents, files, done_files, poll,
                   barrier, symbols, todo, reply, sent, stdout, stderr, exc,
                   server_lines, pipe_closed, read_pipe>>

\* the server has read exit and ends: its end of the pipe is closed
ServerExits ==
    /\ pc = "exited"
    /\ server_pending = <<>>
    /\ ~pipe_closed
    /\ pipe_closed' = TRUE
    /\ UNCHANGED <<pc, fs, toOpen, opened_files, documents, files, done_files, poll,
                   barrier, symbols, todo, reply, sent, stdout, stderr, exc,
                   pipe, server_pending, server_lines, read_pipe>>

\* a drain that forwards the server's lines to the report stream
ReadLineToStdout ==
    /\ read_pipe = "running"
    /\ pipe # <<>>
    /\ pipe' = Tail(pipe)
    /\ LET line == decode(Head(pipe))
       IN IF line.raised = "none"
          THEN /\ stdout' = Append(stdout, line.text)
               /\ UNCHANGED <<stderr, read_pipe>>
          ELSE /\ read_pipe' = line.raised
               /\ stderr' = stderr \cup {ThreadTraceback(line.raised)}
               /\ UNCHANGED stdout
    /\ UNCHANGED <<pc, fs, toOpen, opened_files, documents, files, done_files, poll,
                   barrier, symbols, todo, reply, sent, exc,
                   server_pending, server_lines, pipe_closed>>

\* ReadPipe.run: readline() returns a line, it is decoded and printed to
\* stderr; an undecodable line raises out of run() and the thread ends
ReadLine ==
    /\ read_pipe = "running"
    /\ pipe # <<>>
    /\ pipe' = Tail(pipe)
    /\ LET line == decode(Head(pipe))
       IN IF line.raised = "none"
          THEN /\ stderr' = stderr \cup {line.text}
               /\ UNCHANGED read_pipe
          ELSE /\ read_pipe' = line.raised
               /\ stderr' = stderr \cup {ThreadTraceback(line.raised)}
    /\ UNCHANGED <<pc, fs, toOpen, opened_files, documents, files, done_files, poll,
                   barrier, symbols, todo, reply, sent, stdout, exc,
                   server_pending, server_lines, pipe_closed>>

\* ReadPipe.run: readline() returns b"" at end of file and the loop ends
DrainEof ==
    /\ read_pipe = "running"
    /\ pipe = <<>>
    /\ pipe_closed
    /\ read_pipe' = "done"
    /\ UNCHANGED <<pc, fs, toOpen, opened_files, documents, files, done_files, poll,
                   barrier, symbols, todo, reply, sent, stdout, stderr, exc,
                   pipe, server_pending, server_lines, pipe_closed>>

\* Runs in which the server also writes to its stderr, over a workspace of
\* the one file FILE_PATH.  (Spec above is the runs of a server silent on
\* stderr, over every workspace.)
DrainInit ==
    /\ Init
    /\ fs = {FILE_PATH}

DrainNext ==
    \/ Next
    \/ \E line \in ServerStderrLines : ServerDecidesToLog(line)
    \/ ServerWriteStderr
    \/ ServerExits
    \/ ReadLine
    \/ DrainEof

\* Both threads are scheduled by the operating system, the server completes
\* a write the pipe has room for, and answers a request it is free to answer.
DrainSpec ==
    /\ DrainInit
    /\ [][DrainNext]_vars
    /\ WF_vars(ReadLine)
    /\ WF_vars(DrainEof)
    /\ WF_vars(ServerWriteStderr)
    /\ WF_vars(ServerExits)
    /\ WF_vars(RecvInitialize)
    /\ WF_vars(RecvDocumentSymbol)
    /\ WF_vars(RecvReferences)

\* Runs in which the main thread, once in the barrier loop, goes on running:
\* sleep(1) returns and the next test is made.  Nothing is assumed of the
\* server: notifications and answers may never come.  The workspace holds
\* at most FILE_PATH and one other file.
BarrierInit ==
    /\ Init
    /\ fs \subseteq {FILE_PATH, "/b.php"}

BarrierSpec ==
    /\ BarrierInit
    /\ [][Next]_vars
    /\ WF_vars(Poll)
    /\ WF_vars(BarrierTimeout)

----------------------------------------------------------------------------
(* Vocabulary of the properties                                            *)

IsReferences(m) == m.method = "textDocument/references"

IsDidOpen(m) == m.method = "textDocument/didOpen"

\* the references requests written so far, in order
ReferencesSent == SelectSeq(sent, IsReferences)

\* a documentSymbol or references request has been issued
WalkRequested ==
    \E i \in 1..Len(sent) :
        sent[i].method \in {"textDocument/documentSymbol", "textDocument/references"}

\* the last two messages written are shutdown, then exit
EndsWithShutdownExit ==
    /\ Len(sent) >= 2
    /\ sent[Len(sent) - 1].method = "shutdown"
    /\ sent[Len(sent)].method = "exit"

\* the barrier loop ends in this step
BarrierEnds == barrier = "none" /\ barrier' # "none"

\* a references call returns a result to get_reference in this step
ReferencesReturn ==
    pc = "references_wait" /\ pc' # "references_wait" /\ reply'.kind = "result"

\* open_all_source_files has returned
IngestReturned == pc = "barrier" \/ barrier # "none"

\* start_communication has returned from the walk without an error
WalkReturned ==
    /\ pc \in {"finally", "finally_exit", "exited"}
    /\ barrier = "Completed"
    /\ exc = "none"
    /\ "Failed to document symbols" \notin stderr

\* the lines of each file on disk, written out by hand
LinesOnDisk(path) ==
    CASE path = "/a.php" -> <<"ab", "cd">>
      [] path = "/b.php" -> <<"e", "", "fg">>
      [] path = "/c.php" -> <<>>
      [] OTHER -> <<"h">>

\* the nodes of a forest of hierarchical symbols in depth-first pre-order
RECURSIVE PreorderForest(_)
PreorderForest(forest) ==
    IF forest = <<>> THEN <<>>
    ELSE <<Head(forest)>> \o PreorderForest(Head(forest).children)
                          \o PreorderForest(Tail(forest))

----------------------------------------------------------------------------
(* C1: the barrier ends Completed if and only if, when it ends, the        *)
(* parsed-set is a superset of the target URI set (the set only grows, so  *)
(* this is "became a superset before the timeout elapsed"); otherwise it   *)
(* ends TimedOut.  The code tests equality and does not test after the     *)
(* last sleep, so this is violated.                                        *)
C1_CompletedIffSuperset ==
    [][BarrierEnds => (barrier' = "Completed" <=> files \subseteq done_files)]_vars

(* C2: whenever a documentSymbol or references request has been issued,    *)
(* the URI of every document sent in a didOpen is in the parsed-set.       *)
C2_WalkOnlyAfterAllParsed ==
    WalkRequested =>
        \A i \in 1..Len(sent) :
            IsDidOpen(sent[i]) => sent[i].params.uri \in done_files

C2_Witness ==
    /\ pc = "references_wait"
    /\ Cardinality(files) = 3
    /\ OutsideUri \notin done_files

(* C3: when main has exited, on whatever path, the last two messages it    *)
(* wrote to the server are shutdown, then exit.                            *)
C3_ShutdownExitOnEveryPath == pc = "exited" => EndsWithShutdownExit

C3_Witness ==
    /\ pc = "exited"
    /\ exc = "KeyError"
    /\ stdout # <<>>

(* C4: once the barrier has timed out, no documentSymbol and no references *)
(* request is ever issued, no report line is printed, control is in main's *)
(* finally clause, and main exits having written shutdown, then exit.      *)
C4_TimeoutAbortsWalk ==
    barrier = "TimedOut" =>
        /\ ~WalkRequested
        /\ stdout = <<>>
        /\ pc \in {"finally", "finally_exit", "exited"}
        /\ pc = "exited" => EndsWithShutdownExit

C4_Witness ==
    /\ barrier = "TimedOut"
    /\ pc = "exited"
    /\ Cardinality(files) = 3
    /\ Cardinality(files \ done_files) = 1

(* C5: the step in which the barrier times out prints a diagnostic that    *)
(* names exactly the target URIs missing from the parsed-set.  The code    *)
(* prints the fixed line "file parse timeout", so this is violated.        *)
C5_TimeoutNamesUnconfirmed ==
    [][(BarrierEnds /\ barrier' = "TimedOut") =>
          \E d \in stderr' \ stderr :
              \A u \in files : Contains(d, u) <=> u \notin done_files]_vars

(* C6: for a hierarchical documentSymbol result, the references requests   *)
(* written so far are, in order, the queries of an initial part of the     *)
(* forest's nodes in depth-first pre-order, each anchored in the target    *)
(* file; and once the walk has returned they are the queries of all N      *)
(* nodes, one per node.                                                    *)
C6_PreorderOneQueryPerNode ==
    (symbols # <<>> /\ symbols[1].type = "DocumnetSymbol") =>
        LET nodes == PreorderForest(symbols)
            queries == ReferencesSent
        IN /\ Len(queries) <= Len(nodes)
           /\ \A i \in 1..Len(queries) :
                /\ queries[i].params.position = nodes[i].selectionRange.start
                /\ queries[i].params.textDocument.uri = "file://" \o FILE_PATH
           /\ WalkReturned => Len(queries) = Len(nodes)

C6_Witness ==
    /\ WalkReturned
    /\ symbols = HierarchicalSymbols
    /\ Len(ReferencesSent) = 5

(* C7: when a references result holds a location whose file is not in the  *)
(* document cache, print_reference raises nothing and prints one line per  *)
(* location, the line of each such location bearing the placeholder        *)
(* "unresolved source line".  The code raises KeyError, so this is         *)
(* violated.                                                               *)
C7_UnresolvedPlaceholder ==
    [][(/\ ReferencesReturn
        /\ \E i \in 1..Len(reply'.items) : reply'.items[i].uri \notin files)
       => /\ exc' = "none"
          /\ Len(stdout') = Len(stdout) + Len(reply'.items)
          /\ \A i \in 1..Len(reply'.items) :
                reply'.items[i].uri \notin files =>
                    Contains(stdout'[Len(stdout) + i], "unresolved source line")]_vars

(* C8: a references call that returns the empty list makes print_reference *)
(* print exactly one line, which carries the visited symbol's URI, anchor  *)
(* line, anchor character and name, and the marker "no references".  The   *)
(* code prints the symbol's fields and no marker, so this is violated.     *)
EmptyResultOrigin ==
    LET symbol == Head(todo)
        position == IF symbol.type = "DocumnetSymbol"
                    THEN symbol.selectionRange.start
                    ELSE [line |-> symbol.location.range.start.line + 3,
                          character |-> symbol.location.range.start.character]
    IN "\"file://" \o FILE_PATH \o "\", "
         \o ToString(position.line) \o ", "
         \o ToString(position.character) \o ", \""
         \o symbol.name \o "\""

C8_EmptyResultOneRecord ==
    [][(ReferencesReturn /\ reply'.items = <<>>) =>
          /\ Len(stdout') = Len(stdout) + 1
          /\ SubSeq(stdout', 1, Len(stdout)) = stdout
          /\ Contains(stdout'[Len(stdout')], EmptyResultOrigin)
          /\ Contains(stdout'[Len(stdout')], "no references")]_vars

\* what the code does print for an empty result: the one line of the
\* symbol's fields and nothing else
EmptyResultOneOriginLine ==
    [][(ReferencesReturn /\ reply'.items = <<>>) =>
          stdout' = Append(stdout, EmptyResultOrigin)]_vars

C8_Witness ==
    /\ pc = "walk"
    /\ reply.kind = "result"
    /\ reply.items = <<>>
    /\ stdout = << "\"file:///a.php\", 0, 6, \"A\"" >>

(* C9: a references call that returns a non-empty result whose locations   *)
(* are all in cached documents makes print_reference print exactly one     *)
(* line per location, in the result's order and without dropping repeated  *)
(* locations; the line of a location carries the visited symbol, the       *)
(* location's URI, start line and start character, and the text of that    *)
(* line of the file as it was read at open time.  For a location whose     *)
(* line number is not below the number of lines splitlines() gives, the    *)
(* code raises IndexError, so this is violated.                            *)
AllTargetsCached ==
    /\ ReferencesReturn
    /\ reply'.items # <<>>
    /\ \A i \in 1..Len(reply'.items) :
          /\ reply'.items[i].uri \in files
          /\ \E path \in DOMAIN documents :
                documents[path].uri = reply'.items[i].uri

TargetPath(i) ==
    CHOOSE q \in DOMAIN documents : documents[q].uri = reply'.items[i].uri

\* the line expected for the i-th location of the result
ExpectedRecord(i) ==
    LET symbol == Head(todo)
        position == sent[Len(sent)].params.position
        location == reply'.items[i]
    IN "\"file://" \o FILE_PATH \o "\", "
         \o ToString(position.line) \o ", "
         \o ToString(position.character) \o ", \""
         \o symbol.name \o "\", \"" \o location.uri \o "\", "
         \o ToString(location.range.start.line) \o ", "
         \o ToString(location.range.start.character) \o ", '"
         \o LinesOnDisk(TargetPath(i))[location.range.start.line + 1] \o "'"

TargetLinesExist ==
    \A i \in 1..Len(reply'.items) :
        reply'.items[i].range.start.line < Len(LinesOnDisk(TargetPath(i)))

C9_OneRecordPerLocation ==
    [][AllTargetsCached =>
          /\ exc' = "none"
          /\ Len(stdout') = Len(stdout) + Len(reply'.items)
          /\ TargetLinesExist
          /\ stdout' = stdout \o [i \in 1..Len(reply'.items) |-> ExpectedRecord(i)]]_vars

\* what the code does for the results whose lines all exist in the cached
\* texts: one line per location, as above
OneRecordPerLocationOnExistingLines ==
    [][(AllTargetsCached /\ TargetLinesExist) =>
          /\ exc' = "none"
          /\ stdout' = stdout \o [i \in 1..Len(reply'.items) |-> ExpectedRecord(i)]]_vars

C9_Witness ==
    /\ pc = "walk"
    /\ reply.kind = "result"
    /\ Len(reply.items) = 3
    /\ stdout = << "\"file:///a.php\", 0, 6, \"A\", \"file:///b.php\", 2, 0, 'fg'",
                   "\"file:///a.php\", 1, 4, \"B\", \"file:///a.php\", 0, 0, 'ab'",
                   "\"file:///a.php\", 1, 4, \"B\", \"file:///b.php\", 1, 0, ''",
                   "\"file:///a.php\", 1, 4, \"B\", \"file:///a.php\", 0, 0, 'ab'" >>

(* C10: once open_all_source_files has returned, the mapping holds exactly *)
(* one document per discovered file, keyed by the file's path, with the    *)
(* URI "file://" + path, version 1 and the file's text; exactly one        *)
(* didOpen was written per discovered file and none else; and the          *)
(* barrier's target set is the set of those documents' URIs.               *)
C10_OneDocumentPerFile ==
    IngestReturned =>
        /\ DOMAIN documents = fs
        /\ \A path \in fs :
              /\ documents[path].uri = "file://" \o path
              /\ documents[path].version = 1
              /\ documents[path].text = FileText(path)
              /\ Cardinality({i \in 1..Len(sent) :
                     IsDidOpen(sent[i]) /\ sent[i].params = documents[path]}) = 1
        /\ Cardinality({i \in 1..Len(sent) : IsDidOpen(sent[i])}) = Cardinality(fs)
        /\ files = {"file://" \o path : path \in fs}

C10_Witness ==
    /\ pc = "barrier"
    /\ Cardinality(fs) = 3
    /\ Len(sent) = 5

(* C11: the main thread goes through handshake, ingest, barrier wait and   *)
(* walk in that order.  The messages written are, in order, one            *)
(* initialize, initialized, the didOpens, at most one documentSymbol, the  *)
(* references, shutdown, exit; initialized is written only after           *)
(* initialize was answered, a didOpen only before the barrier's first      *)
(* poll, documentSymbol only after the barrier ended Completed, and a      *)
(* references request only after documentSymbol was answered.              *)
PhaseOf(method) ==
    CASE method = "initialize" -> 1
      [] method = "initialized" -> 2
      [] method = "textDocument/didOpen" -> 3
      [] method = "textDocument/documentSymbol" -> 4
      [] method = "textDocument/references" -> 5
      [] method = "shutdown" -> 6
      [] OTHER -> 7

CountSent(method) == Cardinality({i \in 1..Len(sent) : sent[i].method = method})

C11_PhasesInOrder ==
    /\ \A i, j \in 1..Len(sent) :
          i < j => PhaseOf(sent[i].method) <= PhaseOf(sent[j].method)
    /\ CountSent("initialize") <= 1
    /\ CountSent("initialized") <= 1
    /\ CountSent("textDocument/documentSymbol") <= 1
    /\ (sent # <<>>) => sent[1].method = "initialize"
    /\ CountSent("initialized") = 1 => "<initialize result>" \in stderr
    /\ pc = "ingest" => (poll = 0 /\ barrier = "none" /\ CountSent("initialized") = 1)
    /\ (poll > 0 \/ barrier # "none") =>
          /\ pc # "ingest"
          /\ CountSent("textDocument/didOpen") = Cardinality(fs)
    /\ CountSent("textDocument/documentSymbol") = 1 => barrier = "Completed"
    /\ CountSent("textDocument/references") > 0 =>
          /\ CountSent("textDocument/documentSymbol") = 1
          /\ ("Get references for all symbols in file: file://" \o FILE_PATH \o ".")
                \in stderr

C11_Witness ==
    /\ pc = "exited"
    /\ exc = "none"
    /\ CountSent("textDocument/didOpen") = 2
    /\ CountSent("textDocument/references") = 5

(* C12: when documentSymbol raises ResponseError, the error and the notice *)
(* "Failed to document symbols" are printed on stderr and no exception     *)
(* leaves start_communication; from then on no report line has been        *)
(* printed, no references request has been written, control is in main's   *)
(* finally clause, and main exits having written shutdown, then exit.      *)
DocumentSymbolFailed ==
    /\ "Failed to document symbols" \in stderr
    /\ reply.kind = "none"

C12_DocumentSymbolFailureRecovered ==
    /\ [][(pc = "documentSymbol_wait" /\ pc' = "finally") =>
             /\ {"<ResponseError>", "Failed to document symbols"} \subseteq stderr'
             /\ exc' = "none"]_vars
    /\ [](DocumentSymbolFailed =>
             /\ stdout = <<>>
             /\ ReferencesSent = <<>>
             /\ exc = "none"
             /\ pc \in {"finally", "finally_exit", "exited"}
             /\ pc = "exited" => EndsWithShutdownExit)

C12_Witness ==
    /\ DocumentSymbolFailed
    /\ pc = "exited"
    /\ CountSent("textDocument/documentSymbol") = 1

(* C14: the parsed-set is empty at the start; no step removes a URI from   *)
(* it; and a step that adds to it adds exactly one URI, the one whose      *)
(* "Parse end" line publishDiagnostics prints in that step.                *)
C14_ParsedSetGrowsByNotification ==
    /\ done_files = {}
    /\ [][/\ done_files \subseteq done_files'
          /\ done_files' # done_files =>
                \E uri \in done_files' \ done_files :
                    /\ done_files' = done_files \cup {uri}
                    /\ ("Parse end: " \o uri) \in stderr']_vars

C14_Witness ==
    /\ pc = "barrier"
    /\ poll = 2
    /\ done_files = {"file:///a.php", "file:///b.php", "file:///z.php"}

(* C15: entering get_reference for a hierarchical symbol writes exactly    *)
(* one message, a references request for the target file's URI at the      *)
(* symbol's selectionRange.start (which in the symbols here differs from   *)
(* range.start) with includeDeclaration true; and every report line        *)
(* printed for the symbol starts with that URI, line, character and the    *)
(* symbol's name.                                                          *)
StartsWith(s, prefix) ==
    Len(s) >= Len(prefix) /\ SubSeq(s, 1, Len(prefix)) = prefix

C15_HierarchicalAnchor ==
    /\ [][(/\ pc = "walk"
           /\ pc' = "references_wait"
           /\ Head(todo).type = "DocumnetSymbol")
          => /\ Head(todo).selectionRange.start # Head(todo).range.start
             /\ sent' = Append(sent,
                   [method |-> "textDocument/references",
                    params |-> [textDocument |-> [uri |-> "file://" \o FILE_PATH],
                                position |-> Head(todo).selectionRange.start,
                                context |-> [includeDeclaration |-> TRUE]]])]_vars
    /\ [][(ReferencesReturn /\ Head(todo).type = "DocumnetSymbol")
          => \A i \in (Len(stdout) + 1)..Len(stdout') :
                StartsWith(stdout'[i],
                    "\"file://" \o FILE_PATH \o "\", "
                      \o ToString(Head(todo).selectionRange.start.line) \o ", "
                      \o ToString(Head(todo).selectionRange.start.character)
                      \o ", \"" \o Head(todo).name \o "\"")]_vars

C15_Witness ==
    /\ pc = "walk"
    /\ todo # <<>>
    /\ Head(todo).name = "D"
    /\ sent[Len(sent)].method = "textDocument/references"
    /\ sent[Len(sent)].params.position = [line |-> 1, character |-> 4]
    /\ Len(stdout) = 4

(* C16: for a flat documentSymbol result the references requests written   *)
(* so far are, in order, those of an initial part of the list, one per     *)
(* symbol and none else, each for the target file's URI at the symbol's    *)
(* location start with 3 added to the line and the character unchanged,    *)
(* with includeDeclaration true; once the walk has returned there is one   *)
(* for every symbol of the list.                                           *)
C16_FlatAnchorWithOffset ==
    (symbols # <<>> /\ symbols[1].type = "SymbolInformation") =>
        LET queries == ReferencesSent
        IN /\ Len(queries) <= Len(symbols)
           /\ \A i \in 1..Len(queries) :
                queries[i].params =
                    [textDocument |-> [uri |-> "file://" \o FILE_PATH],
                     position |->
                        [line |-> symbols[i].location.range.start.line + 3,
                         character |-> symbols[i].location.range.start.character],
                     context |-> [includeDeclaration |-> TRUE]]
           /\ WalkReturned => Len(queries) = Len(symbols)

C16_Witness ==
    /\ WalkReturned
    /\ symbols = FlatSymbols
    /\ Len(ReferencesSent) = 2
    /\ ReferencesSent[2].params.position = [line |-> 7, character |-> 0]

(* C17: once reading a file has failed in open_all_source_files, no file   *)
(* is read or opened any more (the files left to open, the files opened    *)
(* and the didOpen messages stay as they were), the mapping of documents   *)
(* and the barrier's target are never produced, no poll of the barrier is  *)
(* made and it has no outcome, documentSymbol and references are never     *)
(* requested, nothing is reported, and the run ends with shutdown, exit.   *)
ReadFailed == exc = "OSError"

C17_ReadFailureAbortsIngestion ==
    /\ [](ReadFailed =>
            /\ pc \in {"finally", "finally_exit", "exited"}
            /\ documents = <<>>
            /\ files = {}
            /\ poll = 0
            /\ barrier = "none"
            /\ ~WalkRequested
            /\ ReferencesSent = <<>>
            /\ stdout = <<>>
            /\ CountSent("textDocument/didOpen") = Cardinality(fs \ toOpen)
            /\ toOpen # {}
            /\ (pc = "exited" => EndsWithShutdownExit))
    /\ [][ReadFailed =>
            /\ ReadFailed'
            /\ toOpen' = toOpen
            /\ opened_files' = opened_files
            /\ CountSent("textDocument/didOpen")' = CountSent("textDocument/didOpen")]_vars

C17_Witness ==
    /\ ReadFailed
    /\ pc = "exited"
    /\ CountSent("textDocument/didOpen") = 1
    /\ Cardinality(toOpen) = 2

(* C18: once initialize or initialized has raised, no didOpen is ever      *)
(* sent, the barrier is never polled and has no outcome, documentSymbol    *)
(* and references are never requested, nothing is reported, the only       *)
(* messages written afterwards are shutdown and then exit, and the run     *)
(* ends with them.                                                         *)
HandshakeFailed == exc = "ResponseError"

C18_HandshakeFailureAborts ==
    /\ [](HandshakeFailed =>
            /\ pc \in {"finally", "finally_exit", "exited"}
            /\ CountSent("textDocument/didOpen") = 0
            /\ toOpen = fs
            /\ poll = 0
            /\ barrier = "none"
            /\ ~WalkRequested
            /\ ReferencesSent = <<>>
            /\ stdout = <<>>
            /\ \A i \in 1..Len(sent) :
                 sent[i].method \in {"initialize", "initialized", "shutdown", "exit"}
            /\ (pc = "exited" => EndsWithShutdownExit))
    /\ [][HandshakeFailed =>
            /\ HandshakeFailed'
            /\ sent' # sent =>
                 \/ pc = "finally" /\ sent' = Append(sent, Message("shutdown", "none"))
                 \/ pc = "finally_exit" /\ sent' = Append(sent, Message("exit", "none"))]_vars

C18_Witness ==
    /\ HandshakeFailed
    /\ pc = "exited"
    /\ fs # {}
    /\ Len(sent) = 4
    /\ sent[2].method = "initialized"

(* C13: under DrainSpec's fair scheduling, every write the server has      *)
(* begun on its stderr completes, every request the main thread waits on   *)
(* is answered (the call returns or raises), the ReadPipe thread ends      *)
(* once the pipe is closed, and reading the end of file ends it without    *)
(* an exception.                                                           *)
AwaitingAnswer == pc \in {"initialize_wait", "documentSymbol_wait", "references_wait"}

DrainLiveness ==
    /\ (server_pending # <<>>) ~> (server_pending = <<>>)
    /\ AwaitingAnswer ~> ~AwaitingAnswer
    /\ pipe_closed ~> (read_pipe # "running")

C13_DrainKeepsExchangeGoing ==
    /\ DrainLiveness
    /\ [][(pipe_closed /\ pipe = <<>> /\ read_pipe = "running")
            => read_pipe' \in {"running", "done"}]_vars

\* the same liveness, for the runs in which the thread decodes every line
C13_DrainOfDecodableLines ==
    [](read_pipe # "UnicodeDecodeError") => DrainLiveness

(* C19: every line on stdout is a report record (it opens with the quoted  *)
(* URI of the target file), every line on stderr is one of the program's   *)
(* diagnostics (handshake echoes, the server's stderr lines, parse-end,    *)
(* timeout and error notices) and none of them has the form of a report    *)
(* record; stdout is written only by print_reference, and no step writes   *)
(* to both streams.                                                        *)
IsReportRecord(s) == StartsWith(s, Quoted("file://" \o FILE_PATH) \o ", ")

Diagnostics ==
    {"before initialized", "<initialize result>", "initializing...", "None",
     "after initialized", "file parse timeout", "<ResponseError>",
     "Failed to document symbols",
     "Get references for all symbols in file: file://" \o FILE_PATH \o "."}
    \cup {"Parse end: " \o uri : uri \in NotifiedUris}
    \cup {decode(line).text : line \in {l \in ServerStderrLines : decode(l).raised = "none"}}
    \cup {ThreadTraceback("UnicodeDecodeError")}

C19_StreamsSeparate ==
    /\ [](/\ \A i \in 1..Len(stdout) : IsReportRecord(stdout[i])
          /\ \A d \in stderr : d \in Diagnostics /\ ~IsReportRecord(d))
    /\ [][/\ stdout' # stdout =>
               /\ pc = "references_wait"
               /\ stderr' = stderr
               /\ Len(stdout') > Len(stdout)
               /\ SubSeq(stdout', 1, Len(stdout)) = stdout
          /\ stderr' # stderr => stdout' = stdout]_vars

C19_Witness ==
    /\ Len(stdout) >= 2
    /\ {"l\n", "Parse end: file:///a.php", "after initialized",
        "Failed to document symbols"} \subseteq stderr
    /\ read_pipe = "done"

(* C20: a step that changes _DONE_FILES is one run of the handler: it adds *)
(* exactly one notified URI, notes it on stderr and leaves the main        *)
(* thread's position and data (document cache, barrier target, poll count, *)
(* symbols and walk position, messages, report) and the server's pipe and  *)
(* the ReadPipe thread as they were, so no step of the main thread or of   *)
(* the ReadPipe thread changes the set; and while the process runs the     *)
(* handler can run for any URI, whatever the other threads wait for.       *)
C20_HandlerSoleWriter ==
    /\ [][done_files' # done_files =>
            /\ \E uri \in NotifiedUris \ done_files :
                 /\ done_files' = done_files \cup {uri}
                 /\ stderr' = stderr \cup {"Parse end: " \o uri}
            /\ UNCHANGED <<pc, fs, toOpen, opened_files, documents, files, poll,
                           barrier, symbols, todo, reply, sent, stdout, exc>>
            /\ UNCHANGED serverSide]_vars
    /\ [](pc # "exited" => \A uri \in NotifiedUris : ENABLED publishDiagnostics(uri))

C20_Witness ==
    /\ pc = "references_wait"
    /\ server_pending # <<>>
    /\ Len(pipe) = PipeCapacity
    /\ done_files = {"file:///a.php", "file:///z.php"}
    /\ todo # <<>>
    /\ Head(todo).name = "C"

(* C21: the references requests written exceed the symbols whose result    *)
(* has been handled by at most one, and by one only while the main thread  *)
(* waits for that answer or after the walk has ended at that symbol.  A    *)
(* request is written only when every earlier one has been answered and    *)
(* its records printed: it is the request of the next symbol in traversal  *)
(* order, and stdout then ends with the records of the symbol handled      *)
(* last.  Records are printed only in the step that takes the answer, in   *)
(* which no message is written.                                            *)
RECURSIVE TraversalOrder(_)
TraversalOrder(forest) ==
    IF forest = <<>> THEN <<>>
    ELSE <<Head(forest)>> \o TraversalOrder(Children(Head(forest)))
                          \o TraversalOrder(Tail(forest))

\* symbols whose references result has been printed and left behind
Visited == Len(TraversalOrder(symbols)) - Len(TraversalOrder(todo))

Outstanding == Len(ReferencesSent) - Visited

EndsWith(seq, tail) ==
    /\ Len(seq) >= Len(tail)
    /\ SubSeq(seq, Len(seq) - Len(tail) + 1, Len(seq)) = tail

C21_OneQueryAtATime ==
    /\ [](/\ Outstanding \in {0, 1}
          /\ pc = "walk" => Outstanding = 0
          /\ pc = "references_wait" => Outstanding = 1
          /\ Outstanding = 1 =>
               pc \in {"references_wait", "finally", "finally_exit", "exited"})
    /\ [][ReferencesSent' # ReferencesSent =>
            /\ pc = "walk"
            /\ Outstanding = 0
            /\ stdout' = stdout
            /\ sent' = Append(sent,
                  ReferencesRequest(TraversalOrder(symbols)[Visited + 1],
                                    "file://" \o FILE_PATH))
            /\ Visited >= 1 =>
                 LET last == TraversalOrder(symbols)[Visited]
                 IN EndsWith(stdout,
                       print_reference("file://" \o FILE_PATH, Anchor(last).line,
                                       Anchor(last).character, last.name,
                                       [type |-> reply.type, items |-> reply.items],
                                       documents).out)]_vars
    /\ [][stdout' # stdout =>
            /\ pc = "references_wait"
            /\ sent' = sent
            /\ Outstanding = 1]_vars

C21_Witness ==
    /\ pc = "references_wait"
    /\ symbols = HierarchicalSymbols
    /\ Visited = 2
    /\ Len(ReferencesSent) = 3
    /\ Len(stdout) >= 3

(* C22: the barrier loop makes at most FILE_PARSE_TIMEOUT_SEC tests that   *)
(* fail, each followed by one sleep, and once entered it ends, Completed   *)
(* or TimedOut, whatever notifications arrive.  No other wait of the main  *)
(* thread counts anything: while it waits for the answer to initialize,    *)
(* documentSymbol or references it has no step of its own to take, and it  *)
(* leaves the wait only by taking the answer from a server that is free    *)
(* to give it.                                                             *)
MainThreadStepOfItsOwn ==
    \/ SendInitialize
    \/ Initialized
    \/ \E path \in RootGlob : OpenFile(path)
    \/ ReturnOpenedFiles
    \/ Poll
    \/ BarrierTimeout
    \/ SendDocumentSymbol
    \/ SendReferences
    \/ WalkDone
    \/ Shutdown

AnswerTaken ==
    /\ server_pending = <<>>
    /\ \/ pc = "initialize_wait"
          /\ \/ pc' = "initialized" /\ "<initialize result>" \in stderr'
             \/ pc' = "finally" /\ exc' = "ResponseError"
       \/ pc = "documentSymbol_wait"
          /\ \/ pc' = "walk" /\ symbols' \in SymbolResults
             \/ pc' = "finally" /\ "<ResponseError>" \in stderr'
       \/ pc = "references_wait"
          /\ \/ reply'.kind = "result"
                /\ [type |-> reply'.type, items |-> reply'.items] \in ReferenceResults
             \/ reply'.kind = "ResponseError" /\ "<ResponseError>" \in stderr'

C22_BarrierIsTheOnlyBoundedWait ==
    /\ [](poll \in 0..FILE_PARSE_TIMEOUT_SEC)
    /\ [](poll > 0 => pc = "barrier")
    /\ [][pc = "barrier" =>
            \/ pc' = "barrier" /\ poll' = poll /\ barrier' = "none"
            \/ pc' = "barrier" /\ poll' = poll + 1 /\ barrier' = "none"
            \/ pc' = "lookup" /\ barrier' = "Completed"
            \/ pc' = "finally" /\ barrier' = "TimedOut"
                 /\ poll = FILE_PARSE_TIMEOUT_SEC]_vars
    /\ (pc = "barrier") ~> (barrier \in {"Completed", "TimedOut"})
    /\ [](AwaitingAnswer => ~ENABLED MainThreadStepOfItsOwn)
    /\ [][(AwaitingAnswer /\ pc' # pc) => AnswerTaken]_vars

C22_Witness ==
    /\ barrier = "TimedOut"
    /\ pc = "finally"
    /\ Cardinality(files) = 2
    /\ done_files = {"file:///a.php"}

(* C23: every URI whose notification has been handled, at whatever point   *)
(* of the run, is in the parsed set: the handshake, the ingestion and the  *)
(* step that computes the barrier's target and enters the loop remove      *)
(* nothing.  So the first test of the barrier sees the notifications       *)
(* handled before it, and when they are those of the target the barrier    *)
(* ends Completed at that test, without a sleep.                           *)
BeforeFirstPoll ==
    pc \in {"start", "initialize_wait", "initialized", "ingest"}
        \/ (pc = "barrier" /\ poll = 0)

C23_EarlyNotificationsCount ==
    /\ [](\A uri \in NotifiedUris :
            ("Parse end: " \o uri) \in stderr => uri \in done_files)
    /\ [][(BeforeFirstPoll /\ BeforeFirstPoll') => done_files \subseteq done_files']_vars
    /\ [][(pc = "ingest" /\ pc' = "barrier") =>
            /\ done_files' = done_files
            /\ poll' = 0
            /\ files' = {Uri(path) : path \in fs}]_vars
    /\ [][(pc = "barrier" /\ poll = 0 /\ done_files' = done_files
             /\ done_files = files /\ <<pc, poll>>' # <<pc, poll>>)
            => barrier' = "Completed" /\ pc' = "lookup" /\ poll' = 0]_vars

C23_Witness ==
    /\ pc = "barrier"
    /\ poll = 0
    /\ Cardinality(files) = 2
    /\ done_files = files

(* C24: the step in which a references call raises ResponseError prints    *)
(* nothing on stdout, logs the error and the failure notice on stderr and  *)
(* leaves start_communication without an exception; from then on stdout,   *)
(* the references requests written and the symbols left to visit stay as   *)
(* they were (the failed symbol is still the next one), and the run ends   *)
(* with shutdown, exit.                                                    *)
ReferencesFailed == reply.kind = "ResponseError"

C24_ReferencesFailureEndsWalk ==
    /\ [][(~ReferencesFailed /\ ReferencesFailed') =>
            /\ pc = "references_wait"
            /\ pc' = "finally"
            /\ stdout' = stdout
            /\ sent' = sent
            /\ todo' = todo
            /\ {"<ResponseError>", "Failed to document symbols"} \subseteq stderr'
            /\ exc' = "none"]_vars
    /\ [](ReferencesFailed =>
            /\ pc \in {"finally", "finally_exit", "exited"}
            /\ exc = "none"
            /\ todo # <<>>
            /\ Len(ReferencesSent) = Visited + 1
            /\ ReferencesSent[Len(ReferencesSent)] =
                 ReferencesRequest(Head(todo), "file://" \o FILE_PATH)
            /\ (pc = "exited" => EndsWithShutdownExit))
    /\ [][ReferencesFailed =>
            /\ ReferencesFailed'
            /\ stdout' = stdout
            /\ ReferencesSent' = ReferencesSent
            /\ todo' = todo]_vars

C24_Witness ==
    /\ ReferencesFailed
    /\ pc = "exited"
    /\ symbols = HierarchicalSymbols
    /\ Visited = 2
    /\ Len(stdout) >= 3

(* C25: when the barrier has ended Completed and FILE_PATH is not a key of *)
(* `documents`, the lookup raises KeyError: the step writes no message and *)
(* prints nothing, no documentSymbol or references request is ever         *)
(* written, nothing is reported, and the run ends with shutdown, exit and  *)
(* the exception pending.                                                  *)
TargetNotIngested == barrier = "Completed" /\ FILE_PATH \notin DOMAIN documents

C25_MissingTargetFailsBeforeWalk ==
    /\ [](TargetNotIngested =>
            /\ ~WalkRequested
            /\ stdout = <<>>
            /\ symbols = <<>>
            /\ pc \in {"lookup", "finally", "finally_exit", "exited"}
            /\ (pc # "lookup" => exc = "KeyError")
            /\ (pc = "exited" => EndsWithShutdownExit))
    /\ [][(TargetNotIngested /\ pc = "lookup" /\ pc' # pc) =>
            /\ pc' = "finally"
            /\ exc' = "KeyError"
            /\ sent' = sent
            /\ stdout' = stdout
            /\ stderr' = stderr]_vars

C25_Witness ==
    /\ TargetNotIngested
    /\ pc = "exited"
    /\ Cardinality(files) = 2
    /\ exc = "KeyError"

(* C26: shutdown and exit are each written at most once; exit is written   *)
(* only from the point after shutdown, directly behind it, and only when   *)
(* the server is free to have answered shutdown; once exit is written it   *)
(* stays the last message.                                                 *)
ExitSent == CountSent("exit") > 0

C26_TeardownOrder ==
    /\ [](/\ CountSent("shutdown") <= 1
          /\ CountSent("exit") <= 1
          /\ \A i \in 1..Len(sent) :
               /\ sent[i].method = "shutdown" => i >= Len(sent) - 1
               /\ sent[i].method = "exit" =>
                    i = Len(sent) /\ i > 1 /\ sent[i - 1].method = "shutdown"
          /\ ExitSent <=> pc = "exited")
    /\ [][(~ExitSent /\ ExitSent') =>
            /\ pc = "finally_exit"
            /\ server_pending = <<>>
            /\ sent[Len(sent)].method = "shutdown"
            /\ sent' = Append(sent, Message("exit", "none"))]_vars
    /\ [][ExitSent => sent' = sent]_vars

C26_Witness ==
    /\ pc = "exited"
    /\ ExitSent
    /\ pipe_closed
    /\ server_lines > 0
    /\ Len(ReferencesSent) = 5

====
